---- MODULE Spec2Model ----
(***************************************************************************)
(* Model of the multi-core job scheduler (libscheduler.c) and of the       *)
(* priority queue it keeps its waiting jobs in (libpriqueue.c).            *)
(*                                                                         *)
(* The scheduler is a library driven by a simulator: start_up once, then   *)
(* any sequence of new_job, job_finished and quantum_expired calls whose   *)
(* time arguments never decrease.  scheduler_new_job documents that every  *)
(* job has a unique arrival time (libscheduler.c:79), so every new_job     *)
(* call carries a time later than the previous arrival.                    *)
(***************************************************************************)
EXTENDS Integers, Sequences, FiniteSets, TLC

\* ---------------------------------------------------------------- bounds
MaxCores == 2
MaxJobs == 3
MaxTime == 2
MaxLen == 4
MaxPri == 1
MaxShort == 2
MaxElems == 3
MaxQueue == 3

\* ---------------------------------------------------------------- state
VARIABLES
  numCores,      \* libscheduler.h:28
  schedule,      \* libscheduler.h:30
  coreArr,       \* libscheduler.h:29, one slot per core, NULL when idle
  queue,         \* libscheduler.c:11, the wait queue, head first
  numJobs,       \* libscheduler.h:32, number of completed jobs
  responseTime,  \* libscheduler.h:35, sum of the completed jobs' response times
  heap,          \* what is allocated: jobs, the job numbers whose job_t is; nodes, the
                 \* number of queue nodes; table, whether the core table is
  ev,            \* the last call: its name, core_id and time arguments, its return value
  arrived,       \* number of new_job calls so far (job numbers are 1..arrived)
  lastArrival,   \* time argument of the latest new_job call, -1 before the first
  finished,      \* the job numbers job_finished has completed
  ran,           \* per live job number: 0 never in a core slot, 1 in a slot only for
                 \* stays of length zero so far, 2 in a slot over a positive length of time
  hist           \* per live job number whose history is kept: since, the time of its latest dispatch onto a
                 \* core; spent, the time it was in core slots before that dispatch;
                 \* first, the time of its first dispatch; counted, the time of the
                 \* dispatch that set its present responseTime (-1: none)

vars == <<numCores, schedule, coreArr, queue, numJobs, responseTime, heap, ev,
          arrived, lastArrival, finished, ran, hist>>

Schemes == {"FCFS", "SJF", "PSJF", "PRI", "PPRI", "RR"}

\* The null pointer of an empty core slot.
NULL == [pid |-> 0, priority |-> 0, arrivalTime |-> 0, jobLength |-> 0,
         remainingTime |-> 0, responseTime |-> 0, lastCheckedTime |-> 0]

Cores == 0 .. (numCores - 1)

\* ------------------------------------------------------------ comparators
\* Faulty variant: the always-greater comparer turned into always-less.
FCFScompNegative(a, b) == -1

FCFScomp(a, b) == 1

SJFcomp(a, b) == a.remainingTime - b.remainingTime

PRIcomp(a, b) ==
  LET priority == a.priority - b.priority
  IN  IF priority = 0 THEN a.arrivalTime - b.arrivalTime ELSE priority

\* The comparer start_up hands to priqueue_init for each scheme.
Comparer(a, b) ==
  CASE schedule \in {"FCFS", "RR"}  -> FCFScomp(a, b)
    [] schedule \in {"SJF", "PSJF"} -> SJFcomp(a, b)
    [] schedule \in {"PRI", "PPRI"} -> PRIcomp(a, b)

\* ---------------------------------------------------------- priority queue
\* Faulty variant: offer never compares and links ptr after the last element.
OfferIndexAtTail(q, ptr) == Len(q)

\* Faulty variant: offer links ptr in front of the first element.
OfferIndexAtFront(q, ptr) == 0

\* Faulty variant: offer links ptr before the first element it does not compare
\* greater than.
OfferIndexBeforeEqual(q, ptr) ==
  LET before == {i \in 1 .. Len(q) : Comparer(ptr, q[i]) <= 0}
  IN  IF before = {} THEN Len(q)
      ELSE (CHOOSE i \in before : \A k \in before : i <= k) - 1

\* The zero-based position priqueue_offer links ptr at: before the first
\* element that ptr compares less than, or after the last element.
OfferIndex(q, ptr) ==
  LET before == {i \in 1 .. Len(q) : Comparer(ptr, q[i]) < 0}
  IN  IF before = {} THEN Len(q)
      ELSE (CHOOSE i \in before : \A k \in before : i <= k) - 1

priqueue_offer(q, ptr) ==
  IF ptr = NULL THEN q
  ELSE LET count == OfferIndex(q, ptr)
       IN  SubSeq(q, 1, count) \o <<ptr>> \o SubSeq(q, count + 1, Len(q))

\* Faulty variant: size reports an empty queue.
priqueue_sizeZero(q) == 0

priqueue_size(q) == Len(q)

\* Faulty variant: poll hands out the last element instead of the head.
PollValueFromTail(q) == IF Len(q) = 0 THEN NULL ELSE q[Len(q)]

\* The element priqueue_poll returns, and the queue it leaves.
PollValue(q) == IF Len(q) = 0 THEN NULL ELSE Head(q)

\* Faulty variant: poll hands out the head but leaves it linked.
PollRestKeepsHead(q) == q

PollRest(q) == IF Len(q) = 0 THEN q ELSE Tail(q)

\* -------------------------------------------------------------- start_up
\* The history of a job number that is not live.
NoHist == [since |-> -1, spent |-> 0, first |-> -1, counted |-> -1]

\* The state scheduler_start_up(cores, scheme) leaves, for a simulator that will
\* submit the job numbers in jobs; a history is kept of the job numbers in tracked.
StartUp(cores, scheme, jobs, tracked) ==
  /\ numCores = cores
  /\ schedule = scheme
  /\ coreArr = [i \in 0 .. (cores - 1) |-> NULL]
  /\ queue = <<>>
  /\ numJobs = 0
  /\ responseTime = 0
  /\ heap = [jobs |-> {}, nodes |-> 0, table |-> TRUE]
  /\ ev = [op |-> "start_up", core_id |-> -1, time |-> 0, ret |-> -1]
  /\ arrived = 0
  /\ lastArrival = -1
  /\ finished = {}
  /\ ran = [p \in jobs |-> 0]
  /\ hist = [p \in tracked |-> NoHist]

Init ==
  \E cores \in 1 .. MaxCores, scheme \in Schemes :
    StartUp(cores, scheme, 1 .. MaxJobs, {})

\* ------------------------------------------------------------ bookkeeping
\* ran once the clock has moved on to time: a job that sits in a core slot while
\* the time advances has been in the slot over a positive length of time.
Elapsed(time) ==
  [p \in DOMAIN ran |->
     IF time > ev.time /\ \E i \in Cores : coreArr[i] # NULL /\ coreArr[i].pid = p
     THEN 2 ELSE ran[p]]

\* hist after a call at time: the jobs in left were taken out of a core slot,
\* those in reset had their responseTime put back to -1, those in placed were
\* put into a core slot and those in done completed.
Track(time, left, reset, placed, done) ==
  [p \in DOMAIN hist |->
     IF p \in done THEN NoHist
     ELSE LET a == IF p \in left
                   THEN [hist[p] EXCEPT !.spent = @ + (time - hist[p].since)]
                   ELSE hist[p]
              b == IF p \in reset THEN [a EXCEPT !.counted = -1] ELSE a
          IN  IF p \in placed
              THEN [b EXCEPT !.since = time,
                             !.first = IF @ = -1 THEN time ELSE @,
                             !.counted = IF @ = -1 THEN time ELSE @]
              ELSE b]

\* The running times and priorities the simulator passes.  A scheme that never
\* reads a job's remainingTime, or its priority, is given one value of it.
RunningTimes == IF schedule \in {"SJF", "PSJF"} THEN 1 .. MaxLen ELSE {1}

Priorities == IF schedule \in {"PRI", "PPRI"} THEN 0 .. MaxPri ELSE {0}

\* ---------------------------------------------------------------- new_job
\* The job_t scheduler_new_job builds for the arriving job.
InitJob(job_number, time, running_time, priority) ==
  [pid |-> job_number, priority |-> priority, arrivalTime |-> time,
   jobLength |-> running_time, remainingTime |-> running_time,
   responseTime |-> 0, lastCheckedTime |-> time]

\* Faulty variant: the scan for an idle core does not stop at the first one.
FirstIdleNoBreak(cores) ==
  LET idle == {i \in DOMAIN cores : cores[i] = NULL}
  IN  IF idle = {} THEN -1 ELSE CHOOSE i \in idle : \A k \in idle : i >= k

\* The first idle core, -1 when every core is busy.
FirstIdle(cores) ==
  LET idle == {i \in DOMAIN cores : cores[i] = NULL}
  IN  IF idle = {} THEN -1 ELSE CHOOSE i \in idle : \A k \in idle : i <= k

\* One iteration of the PPRI scan: the new value of lowestPriIdx.
PPRIStep(cores, time, i, lowestPriIdx) ==
  IF cores[i].arrivalTime # time
  THEN IF cores[i].priority > cores[lowestPriIdx].priority
       THEN i
       ELSE IF /\ cores[i].priority = cores[lowestPriIdx].priority
               /\ cores[i].arrivalTime > cores[lowestPriIdx].arrivalTime
            THEN i
            ELSE lowestPriIdx
  ELSE lowestPriIdx

\* The PPRI scan from core i on, lowestPriIdx being its value so far.
RECURSIVE LowestPriIdx(_, _, _, _)
LowestPriIdx(cores, time, i, lowestPriIdx) ==
  IF i >= numCores THEN lowestPriIdx
  ELSE LowestPriIdx(cores, time, i + 1, PPRIStep(cores, time, i, lowestPriIdx))

\* Faulty variant: an arriving job never preempts.
PPRIPreemptsNever(victim, newJob) == FALSE

\* Faulty variant: an arriving job of equal priority preempts too.
PPRIPreemptsOnEqual(victim, newJob) == victim.priority >= newJob.priority

\* Whether the PPRI victim gives way to the arriving job.
PPRIPreempts(victim, newJob) == victim.priority > newJob.priority

\* Faulty variant: the time of the update is not recorded in lastCheckedTime.
UpdateRemainingKeepsChecked(job, time) ==
  [job EXCEPT !.remainingTime = @ - (time - job.lastCheckedTime)]

\* The PSJF update of a running job's remaining time.
UpdateRemaining(job, time) ==
  [job EXCEPT !.remainingTime = @ - (time - job.lastCheckedTime),
              !.lastCheckedTime = time]

\* One iteration of the PSJF scan on the already updated core i.
PSJFStep(cores, time, i, longestTimeIdx) ==
  IF cores[i].arrivalTime # time
  THEN IF cores[i].remainingTime > cores[longestTimeIdx].remainingTime
       THEN i
       ELSE longestTimeIdx
  ELSE longestTimeIdx

\* The PSJF scan from core i on: the updated core table and longestTimeIdx.
RECURSIVE LongestTimeScan(_, _, _, _)
LongestTimeScan(cores, time, i, longestTimeIdx) ==
  IF i >= numCores THEN [coreArr |-> cores, idx |-> longestTimeIdx]
  ELSE LET upd == [cores EXCEPT ![i] = UpdateRemaining(cores[i], time)]
       IN  LongestTimeScan(upd, time, i + 1, PSJFStep(upd, time, i, longestTimeIdx))

\* Faulty variant: an arriving job of equal remaining time preempts too.
PSJFPreemptsOnEqual(victim, newJob) == victim.remainingTime >= newJob.remainingTime

\* Whether the PSJF victim gives way to the arriving job.
PSJFPreempts(victim, newJob) == victim.remainingTime > newJob.remainingTime

\* Faulty variant: every victim's response time is reset.
ResetResponseAlways(job, time) == [job EXCEPT !.responseTime = -1]

\* Faulty variant: the victim's response time is never reset.
ResetResponseNever(job, time) == job

\* A victim that was first scheduled at this very time is counted again later.
ResetResponse(job, time) ==
  IF job.responseTime = time - job.arrivalTime
  THEN [job EXCEPT !.responseTime = -1]
  ELSE job

\* The victim in slot idx goes to the wait queue, newJob takes its slot.
Preempt(cores, q, idx, newJob, time) ==
  [coreArr |-> [cores EXCEPT ![idx] = newJob],
   queue |-> priqueue_offer(q, ResetResponse(cores[idx], time)),
   ret |-> idx]

\* No scheduling change: newJob waits, marked as not scheduled yet.
Defer(cores, q, newJob) ==
  [coreArr |-> cores,
   queue |-> priqueue_offer(q, [newJob EXCEPT !.responseTime = -1]),
   ret |-> -1]

\* Faulty variant: the priority branch is taken for the non-preemptive scheme too.
IsPPRIOrPRI == schedule \in {"PRI", "PPRI"}

\* The branches of scheduler_new_job that may preempt.
IsPPRI == schedule = "PPRI"

IsPSJF == schedule = "PSJF"

\* The core table, the wait queue and the return value scheduler_new_job leaves.
scheduler_new_job(cores, q, job_number, time, running_time, priority) ==
  LET newJob == InitJob(job_number, time, running_time, priority)
      idleCore == FirstIdle(cores)
  IN  IF idleCore # -1
      THEN [coreArr |-> [cores EXCEPT ![idleCore] = newJob], queue |-> q,
            ret |-> idleCore]
      ELSE IF IsPPRI
      THEN LET lowestPriIdx == LowestPriIdx(cores, time, 0, 0)
           IN  IF PPRIPreempts(cores[lowestPriIdx], newJob)
               THEN Preempt(cores, q, lowestPriIdx, newJob, time)
               ELSE Defer(cores, q, newJob)
      ELSE IF IsPSJF
      THEN LET scan == LongestTimeScan(cores, time, 0, 0)
           IN  IF PSJFPreempts(scan.coreArr[scan.idx], newJob)
               THEN Preempt(scan.coreArr, q, scan.idx, newJob, time)
               ELSE Defer(scan.coreArr, q, newJob)
      ELSE Defer(cores, q, newJob)

\* One scheduler_new_job call of the simulator, for the next job number.
NewJobCall(time, running_time, priority) ==
  /\ LET job_number == arrived + 1
         r == scheduler_new_job(coreArr, queue, job_number, time, running_time, priority)
         victims == IF r.ret # -1 /\ coreArr[r.ret] # NULL THEN {coreArr[r.ret].pid} ELSE {}
         reset == {p \in victims :
                     \E k \in 1 .. Len(r.queue) :
                       r.queue[k].pid = p /\ r.queue[k].responseTime = -1}
     IN  /\ coreArr' = r.coreArr
         /\ queue' = r.queue
         /\ heap' = [heap EXCEPT !.jobs = @ \cup {job_number},
                                 !.nodes = @ + (Len(r.queue) - Len(queue))]
         /\ ev' = [op |-> "new_job", core_id |-> -1, time |-> time, ret |-> r.ret]
         /\ ran' = [Elapsed(time) EXCEPT ![job_number] = IF r.ret # -1 THEN 1 ELSE 0]
         /\ hist' = Track(time, victims, reset,
                          IF r.ret # -1 THEN {job_number} ELSE {}, {})
  /\ arrived' = arrived + 1
  /\ lastArrival' = time
  /\ UNCHANGED <<numCores, schedule, numJobs, responseTime, finished>>

NewJob(time, running_time, priority) ==
  /\ arrived < MaxJobs
  /\ NewJobCall(time, running_time, priority)

\* ----------------------------------------------------------- job_finished
\* Faulty variant: the response time of a job taken from the queue is never set.
SetResponseSkipped(job, time) == job

\* First dispatch: the delay between the job arriving and being scheduled.
SetResponse(job, time) ==
  IF job.responseTime = -1
  THEN [job EXCEPT !.responseTime = time - job.arrivalTime]
  ELSE job

\* The core table, wait queue, counters and return value scheduler_job_finished leaves.
scheduler_job_finished(cores, q, core_id, time) ==
  LET sum == responseTime + cores[core_id].responseTime
      freed == [cores EXCEPT ![core_id] = NULL]
  IN  IF priqueue_size(q) # 0
      THEN LET next == SetResponse([PollValue(q) EXCEPT !.lastCheckedTime = time], time)
           IN  [coreArr |-> [freed EXCEPT ![core_id] = next], queue |-> PollRest(q),
                responseTime |-> sum, numJobs |-> numJobs + 1, ret |-> next.pid]
      ELSE [coreArr |-> freed, queue |-> q,
            responseTime |-> sum, numJobs |-> numJobs + 1, ret |-> -1]

JobFinished(core_id, time) ==
  /\ coreArr[core_id] # NULL
  /\ LET r == scheduler_job_finished(coreArr, queue, core_id, time)
     IN  /\ coreArr' = r.coreArr
         /\ queue' = r.queue
         /\ responseTime' = r.responseTime
         /\ numJobs' = r.numJobs
         /\ heap' = [heap EXCEPT !.jobs = @ \ {coreArr[core_id].pid},
                                 !.nodes = @ + (Len(r.queue) - Len(queue))]
         /\ ev' = [op |-> "job_finished", core_id |-> core_id, time |-> time, ret |-> r.ret]
         /\ ran' = [p \in DOMAIN ran |->
                      IF p = coreArr[core_id].pid THEN 0
                      ELSE IF p = r.ret /\ Elapsed(time)[p] = 0 THEN 1
                      ELSE Elapsed(time)[p]]
         /\ hist' = Track(time, {}, {}, {r.ret} \ {-1}, {coreArr[core_id].pid})
  /\ finished' = finished \cup {coreArr[core_id].pid}
  /\ UNCHANGED <<numCores, schedule, arrived, lastArrival>>

\* -------------------------------------------------------- quantum_expired
\* The core table, the wait queue and the return value scheduler_quantum_expired leaves.
scheduler_quantum_expired(cores, q, core_id, time) ==
  IF cores[core_id] = NULL /\ priqueue_size(q) = 0
  THEN [coreArr |-> cores, queue |-> q, ret |-> -1]
  ELSE LET offered == priqueue_offer(q, cores[core_id])
           next == SetResponse(PollValue(offered), time)
       IN  [coreArr |-> [cores EXCEPT ![core_id] = next], queue |-> PollRest(offered),
            ret |-> next.pid]

QuantumExpired(core_id, time) ==
  /\ LET r == scheduler_quantum_expired(coreArr, queue, core_id, time)
     IN  /\ coreArr' = r.coreArr
         /\ queue' = r.queue
         /\ heap' = [heap EXCEPT !.nodes = @ + (Len(r.queue) - Len(queue))]
         /\ ev' = [op |-> "quantum_expired", core_id |-> core_id, time |-> time, ret |-> r.ret]
         /\ ran' = [p \in DOMAIN ran |->
                      IF p = r.ret /\ Elapsed(time)[p] = 0 THEN 1 ELSE Elapsed(time)[p]]
         /\ hist' = Track(time,
                          IF coreArr[core_id] # NULL THEN {coreArr[core_id].pid} ELSE {},
                          {}, {r.ret} \ {-1}, {})
  /\ UNCHANGED <<numCores, schedule, numJobs, responseTime, arrived, lastArrival, finished>>

\* --------------------------------------------------------------- clean_up
\* scheduler_clean_up frees the job of every busy core and the core table; it
\* makes no call on the wait queue.
CleanUp ==
  /\ heap' = [heap EXCEPT !.jobs = @ \ {coreArr[i].pid : i \in {k \in Cores : coreArr[k] # NULL}},
                          !.table = FALSE]
  /\ ev' = [op |-> "clean_up", core_id |-> -1, time |-> ev.time, ret |-> -1]
  /\ UNCHANGED <<numCores, schedule, coreArr, queue, numJobs, responseTime,
                 arrived, lastArrival, finished, ran, hist>>

\* ------------------------------------------------------------ the simulator
\* Calls arrive with times that never decrease; arrival times are unique.
Next ==
  \/ \E time \in ev.time .. MaxTime, running_time \in RunningTimes, priority \in Priorities :
       time > lastArrival /\ NewJob(time, running_time, priority)
  \/ \E time \in ev.time .. MaxTime, core_id \in Cores : JobFinished(core_id, time)
  \/ \E time \in ev.time .. MaxTime, core_id \in Cores : QuantumExpired(core_id, time)

Spec == Init /\ [][Next]_vars

\* The simulator's whole run: clean_up is the last call it makes.
NextCleanUp ==
  \/ \E time \in ev.time .. MaxTime, running_time \in RunningTimes, priority \in Priorities :
       ev.op # "clean_up" /\ time > lastArrival /\ NewJob(time, running_time, priority)
  \/ \E time \in ev.time .. MaxTime, core_id \in Cores :
       ev.op # "clean_up" /\ JobFinished(core_id, time)
  \/ \E time \in ev.time .. MaxTime, core_id \in Cores :
       ev.op # "clean_up" /\ QuantumExpired(core_id, time)
  \/ ev.op # "clean_up" /\ CleanUp

SpecCleanUp == Init /\ [][NextCleanUp]_vars

\* PSJF driven by new_job and job_finished calls only, every job's history kept.
InitPSJF ==
  \E cores \in 1 .. MaxCores : StartUp(cores, "PSJF", 1 .. MaxJobs, 1 .. MaxJobs)

NextNoQuantum ==
  \/ \E time \in ev.time .. MaxTime, running_time \in RunningTimes, priority \in Priorities :
       time > lastArrival /\ NewJob(time, running_time, priority)
  \/ \E time \in ev.time .. MaxTime, core_id \in Cores : JobFinished(core_id, time)

SpecNoQuantum == InitPSJF /\ [][NextNoQuantum]_vars

\* The preemptive schemes on one core, with one more job and one more tick of
\* the clock than Spec has, every job's history kept.
MoreJobs == MaxJobs + 1

MoreTime == MaxTime + 1

\* The running times of these longer runs.
ShortTimes == {r \in RunningTimes : r <= MaxShort}

InitOneCore ==
  \E scheme \in {"PSJF", "PPRI"} : StartUp(1, scheme, 1 .. MoreJobs, 1 .. MoreJobs)

NextOneCore ==
  \/ \E time \in ev.time .. MoreTime, running_time \in ShortTimes, priority \in Priorities :
       time > lastArrival /\ arrived < MoreJobs /\ NewJobCall(time, running_time, priority)
  \/ \E time \in ev.time .. MoreTime, core_id \in Cores : JobFinished(core_id, time)
  \/ \E time \in ev.time .. MoreTime, core_id \in Cores : QuantumExpired(core_id, time)

SpecOneCore == InitOneCore /\ [][NextOneCore]_vars

\* ====================================================== the queue on its own
\* A caller of libpriqueue alone: priqueue_init with one of the comparers, then
\* any sequence of offer, poll, peek, at and remove calls.  The queue is the
\* sequence of the elements its nodes hold, front first.

\* The handles the caller offers, pointers to job_t; handles 1 and 2 compare as
\* equal under SJFcomp and PRIcomp, as do 3 and 4.
Elem(p) == InitJob(p, (p + 1) \div 2, (p + 1) \div 2, (p + 1) \div 2)

Elems == {Elem(p) : p \in 1 .. MaxElems}

\* The node that holds ptr.
Node(ptr) == [pasta |-> ptr]

\* What priqueue_peek returns: NULL, or q->front, the first node.
priqueue_peek(q) == IF priqueue_size(q) = 0 THEN NULL ELSE Node(q[1])

\* What priqueue_at returns.
priqueue_at(q, index) ==
  IF priqueue_size(q) = 0 \/ index < 0 \/ index >= priqueue_size(q)
  THEN NULL
  ELSE q[index + 1]

\* Faulty variant: the scan ends at the first entry it removes.
RemoveScanOnce(q, i, ptr, count) ==
  LET hits == {k \in 1 .. Len(q) : q[k] = ptr}
  IN  IF hits = {} THEN [queue |-> q, ret |-> 0]
      ELSE LET k == CHOOSE h \in hits : \A g \in hits : h <= g
           IN  [queue |-> SubSeq(q, 1, k - 1) \o SubSeq(q, k + 1, Len(q)), ret |-> 1]

\* The loop of priqueue_remove with temp_noodle at position i of q: a matching
\* node is unlinked and the scan resumes at lastgood, the new front or the
\* node before; any other node becomes lastgood and the scan moves on.
RECURSIVE RemoveScan(_, _, _, _)
RemoveScan(q, i, ptr, count) ==
  IF i > Len(q) THEN [queue |-> q, ret |-> count]
  ELSE IF q[i] = ptr
       THEN RemoveScan(SubSeq(q, 1, i - 1) \o SubSeq(q, i + 1, Len(q)),
                       IF i = 1 THEN 1 ELSE i - 1, ptr, count + 1)
       ELSE RemoveScan(q, i + 1, ptr, count)

\* The queue priqueue_remove leaves and the count it returns.
priqueue_remove(q, ptr) ==
  IF priqueue_size(q) = 0 THEN [queue |-> q, ret |-> 0] ELSE RemoveScan(q, 1, ptr, 0)

InitPQ ==
  /\ schedule \in {"FCFS", "SJF", "PRI"}
  /\ queue = <<>>
  /\ ev = [op |-> "priqueue_init", arg |-> NULL, ret |-> NULL]
  /\ heap = [jobs |-> {}, nodes |-> 0, table |-> FALSE]
  /\ numCores = 0
  /\ coreArr = <<>>
  /\ numJobs = 0
  /\ responseTime = 0
  /\ arrived = 0
  /\ lastArrival = -1
  /\ finished = {}
  /\ ran = <<>>
  /\ hist = <<>>

\* The scheduler's variables, which no queue function touches.
UnchangedScheduler ==
  UNCHANGED <<numCores, schedule, coreArr, numJobs, responseTime,
              arrived, lastArrival, finished, ran, hist>>

Offer(ptr) ==
  /\ priqueue_size(queue) < MaxQueue
  /\ queue' = priqueue_offer(queue, ptr)
  /\ ev' = [op |-> "priqueue_offer", arg |-> ptr,
            ret |-> IF ptr = NULL THEN -1 ELSE OfferIndex(queue, ptr)]
  /\ heap' = [heap EXCEPT !.nodes = Len(queue')]
  /\ UnchangedScheduler

Peek ==
  /\ ev' = [op |-> "priqueue_peek", arg |-> NULL, ret |-> priqueue_peek(queue)]
  /\ UNCHANGED <<queue, heap>>
  /\ UnchangedScheduler

Poll ==
  /\ queue' = PollRest(queue)
  /\ ev' = [op |-> "priqueue_poll", arg |-> NULL, ret |-> PollValue(queue)]
  /\ heap' = [heap EXCEPT !.nodes = Len(queue')]
  /\ UnchangedScheduler

At(index) ==
  /\ ev' = [op |-> "priqueue_at", arg |-> index, ret |-> priqueue_at(queue, index)]
  /\ UNCHANGED <<queue, heap>>
  /\ UnchangedScheduler

Remove(ptr) ==
  /\ LET r == priqueue_remove(queue, ptr)
     IN  /\ queue' = r.queue
         /\ ev' = [op |-> "priqueue_remove", arg |-> ptr, ret |-> r.ret]
  /\ heap' = [heap EXCEPT !.nodes = Len(queue')]
  /\ UnchangedScheduler

NextPQ ==
  \/ \E ptr \in Elems \cup {NULL} : Offer(ptr)
  \/ Peek
  \/ Poll
  \/ \E index \in -1 .. MaxQueue : At(index)
  \/ \E ptr \in Elems : Remove(ptr)

SpecPQ == InitPQ /\ [][NextPQ]_vars

\* ================================================================ properties
\* Vocabulary of the properties below.
Running == {coreArr[i] : i \in {k \in Cores : coreArr[k] # NULL}}

Waiting == {queue[k] : k \in 1 .. Len(queue)}

LiveJobs == Running \cup Waiting

SlotsOf(p) == {i \in Cores : coreArr[i] # NULL /\ coreArr[i].pid = p}

PlacesIn(q, p) == {k \in 1 .. Len(q) : q[k].pid = p}

PlacesInQueue(p) == PlacesIn(queue, p)

AllBusy == \A i \in Cores : coreArr[i] # NULL

\* q without the entries of job number p.
Without(q, p) ==
  LET Keep(j) == j.pid # p
  IN  SelectSeq(q, Keep)

\* The steps of the three calls, told apart by what they count.
NewJobStep == arrived' = arrived + 1

JobFinishedStep == numJobs' = numJobs + 1

QuantumStep == ev'.op = "quantum_expired" /\ arrived' = arrived /\ numJobs' = numJobs

\* The record of the job the new_job step has just admitted.
Arrival == CHOOSE j \in LiveJobs : j.pid = arrived

\* ---------------------------------------------------------------------- C1
\* C1: every job that has arrived and is not completed is in exactly one
\* place, one core slot or one position of the wait queue; a job that has not
\* arrived or is completed is nowhere; and occupied slots + queue size +
\* numJobs equals the number of new_job calls.
C1_ExactlyOnePlace ==
  /\ \A p \in 1 .. MaxJobs :
       Cardinality(SlotsOf(p)) + Cardinality(PlacesInQueue(p))
         = IF p <= arrived /\ p \notin finished THEN 1 ELSE 0
  /\ \A k \in 1 .. Len(queue) : queue[k] # NULL
  /\ Cardinality({i \in Cores : coreArr[i] # NULL}) + Len(queue) + numJobs = arrived
  /\ numJobs = Cardinality(finished)

\* A rotation has just happened with a job waiting, a job running and a job completed.
C1_Witness ==
  /\ ev.op = "quantum_expired"
  /\ ev.ret # -1
  /\ Len(queue) >= 1
  /\ numJobs >= 1
  /\ arrived = MaxJobs

\* ---------------------------------------------------------------------- C2
\* C2: when a core slot is empty, new_job puts the arriving job in the lowest
\* empty slot with responseTime 0, returns that index, and leaves every other
\* slot and the wait queue as they were.
C2_IdleCorePreference ==
  [][(NewJobStep /\ ~AllBusy) =>
       LET low == CHOOSE i \in Cores :
                    coreArr[i] = NULL /\ \A k \in Cores : coreArr[k] = NULL => i <= k
       IN  /\ ev'.ret = low
           /\ coreArr'[low].pid = arrived'
           /\ coreArr'[low].responseTime = 0
           /\ coreArr'[low].arrivalTime = ev'.time
           /\ \A i \in Cores \ {low} : coreArr'[i] = coreArr[i]
           /\ queue' = queue]_vars

\* An arrival has just taken core 1, the only idle core, while core 0 was busy.
C2_Witness ==
  /\ ev.op = "new_job"
  /\ ev.ret = 1
  /\ coreArr[1].pid = arrived
  /\ coreArr[0] # NULL
  /\ numJobs >= 1

C4_PreemptsOlder ==
  [][(NewJobStep /\ AllBusy /\ schedule = "PPRI" /\ ev'.ret # -1) =>
       LET largest == CHOOSE x \in {j.priority : j \in Running} :
                        \A j \in Running : j.priority <= x
           weakest == {i \in Cores : coreArr[i].priority = largest}
           oldest == {i \in weakest :
                        \A k \in weakest : coreArr[i].arrivalTime <= coreArr[k].arrivalTime}
       IN  ev'.ret = (CHOOSE i \in oldest : \A k \in oldest : i <= k)]_vars

C6_NoPreemption ==
  [][(schedule \in {"FCFS", "SJF", "PRI", "RR"}) =>
       /\ (NewJobStep /\ AllBusy) =>
            /\ ev'.ret = -1
            /\ coreArr' = coreArr
            /\ \E k \in PlacesIn(queue', arrived') : queue'[k].responseTime = -1
            /\ Without(queue', arrived') = queue
       /\ \A i \in Cores :
            (coreArr[i] # NULL /\ (coreArr'[i] = NULL \/ coreArr'[i].pid # coreArr[i].pid))
              => (ev'.op \in {"job_finished", "quantum_expired"} /\ ev'.core_id = i)
    ]_vars

\* Under PRI an arrival of higher priority than the only running job has just
\* been made to wait.
C6_Witness ==
  /\ schedule = "PRI"
  /\ ev.op = "new_job"
  /\ ev.ret = -1
  /\ \A i \in Cores : coreArr[i] # NULL
  /\ \E k \in 1 .. Len(queue), i \in Cores :
       /\ queue[k].pid = arrived
       /\ queue[k].responseTime = -1
       /\ queue[k].priority < coreArr[i].priority

\* ---------------------------------------------------------------------- C7
\* C7: job_finished(core_id, job, t) on a busy core removes that core's job
\* from the system.  With a job waiting, the head of the wait queue leaves
\* the queue for slot core_id, its lastCheckedTime becomes t, its
\* responseTime becomes t - arrivalTime if it was -1 and stays otherwise, and
\* its id is returned; with none waiting the slot becomes empty and -1 is
\* returned.  The other core slots are unchanged.
C7_JobFinished ==
  [][JobFinishedStep =>
       LET c == ev'.core_id
           t == ev'.time
           gone == coreArr[c]
       IN  /\ c \in Cores
           /\ gone # NULL
           /\ \A j \in LiveJobs' : j.pid # gone.pid
           /\ \A i \in Cores \ {c} : coreArr'[i] = coreArr[i]
           /\ queue # <<>> =>
                /\ queue' = Tail(queue)
                /\ coreArr'[c] =
                     [Head(queue) EXCEPT
                        !.lastCheckedTime = t,
                        !.responseTime = IF @ = -1 THEN t - Head(queue).arrivalTime ELSE @]
                /\ ev'.ret = Head(queue).pid
           /\ queue = <<>> =>
                /\ queue' = queue
                /\ coreArr'[c] = NULL
                /\ ev'.ret = -1]_vars

\* job_finished has just dispatched, for the first time, a job that had
\* waited, while the other core keeps running its job.
C7_Witness ==
  /\ ev.op = "job_finished"
  /\ ev.ret # -1
  /\ numCores = 2
  /\ coreArr[ev.core_id].pid = ev.ret
  /\ ran[ev.ret] = 1
  /\ coreArr[ev.core_id].responseTime = ev.time - coreArr[ev.core_id].arrivalTime
  /\ coreArr[ev.core_id].lastCheckedTime = ev.time
  /\ coreArr[1 - ev.core_id] # NULL

\* ---------------------------------------------------------------------- C8
\* C8: under RR, quantum_expired(core_id, t) on a busy core puts the running
\* job at the tail of the wait queue, then moves the head of the queue into
\* slot core_id (the same job when none was waiting), sets its responseTime
\* to t - arrivalTime if it was -1, and returns its id.  With slot core_id
\* empty and no job waiting it returns -1 and changes nothing.
C8_QuantumExpired ==
  [][(QuantumStep /\ schedule = "RR") =>
       LET c == ev'.core_id
           t == ev'.time
           rotated == Append(queue, coreArr[c])
           next == Head(rotated)
       IN  /\ coreArr[c] # NULL =>
                /\ queue' = Tail(rotated)
                /\ coreArr'[c] =
                     [next EXCEPT
                        !.responseTime = IF @ = -1 THEN t - next.arrivalTime ELSE @]
                /\ ev'.ret = next.pid
                /\ \A i \in Cores \ {c} : coreArr'[i] = coreArr[i]
           /\ (coreArr[c] = NULL /\ queue = <<>>) =>
                /\ ev'.ret = -1
                /\ UNCHANGED <<coreArr, queue, numJobs, responseTime, numCores, schedule>>]_vars

\* A rotation under RR has just given the core to a job that had never run,
\* and the job it took the core from waits at the tail behind another job.
C8_Witness ==
  /\ schedule = "RR"
  /\ ev.op = "quantum_expired"
  /\ ev.ret # -1
  /\ coreArr[ev.core_id].pid = ev.ret
  /\ coreArr[ev.core_id].responseTime > 0
  /\ coreArr[ev.core_id].responseTime = ev.time - coreArr[ev.core_id].arrivalTime
  /\ Len(queue) = 2
  /\ ran[queue[1].pid] = 0
  /\ ran[queue[2].pid] = 2

C10_ResponseBounds ==
  [][/\ JobFinishedStep =>
          LET done == coreArr[ev'.core_id]
          IN  /\ responseTime' = responseTime + done.responseTime
              /\ done.responseTime >= 0
              /\ done.responseTime <= ev'.time - done.arrivalTime
     /\ \A i \in Cores : coreArr'[i] # NULL => coreArr'[i].responseTime >= 0]_vars

\* job_finished has just completed a job that had waited before its first
\* dispatch: the sum holds a positive response time.
C10_Witness ==
  /\ ev.op = "job_finished"
  /\ numJobs >= 2
  /\ responseTime > 0

\* --------------------------------------------------------------------- C11
\* C11: the wait queue is ordered by the scheme's comparer: for queued jobs a
\* before b, Comparer(b, a) is not negative.  Under SJF and PSJF remainingTime
\* never decreases from head to tail; under PRI and PPRI neither does
\* (priority, arrivalTime).
C11_QueueOrdered ==
  \A a, b \in 1 .. Len(queue) :
    a < b =>
      /\ Comparer(queue[b], queue[a]) >= 0
      /\ schedule \in {"SJF", "PSJF"} =>
           queue[a].remainingTime <= queue[b].remainingTime
      /\ schedule \in {"PRI", "PPRI"} =>
           \/ queue[a].priority < queue[b].priority
           \/ /\ queue[a].priority = queue[b].priority
              /\ queue[a].arrivalTime <= queue[b].arrivalTime

\* Under PPRI a preempted job has been put back in front of a job that has
\* never run and arrived after it.
C11_Witness ==
  /\ schedule = "PPRI"
  /\ Len(queue) = 2
  /\ ran[queue[1].pid] = 2
  /\ ran[queue[2].pid] = 0
  /\ queue[1].priority = queue[2].priority
  /\ queue[1].arrivalTime < queue[2].arrivalTime

\* --------------------------------------------------------------------- C12
\* C12: after clean_up nothing remains allocated: no job, in a core slot or in
\* the wait queue, no node of the wait queue, and not the core table.
C12_CleanUpFreesAll ==
  ev.op = "clean_up" =>
    /\ heap.jobs = {}
    /\ heap.nodes = 0
    /\ ~heap.table

\* --------------------------------------------------------------------- C13
\* C13: priqueue_offer(e) links e immediately before the first element, from
\* the head, that e compares less than, or at the tail when there is none: it
\* returns the zero-based index e now sits at, the size grows by one and the
\* elements already present keep their order.  Elements that compare equal
\* stay in the order they were offered in, and with the always-positive
\* comparer offer appends and poll takes the head, so the poll order is the
\* insertion order.
C13_Offer ==
  [][/\ (ev'.op = "priqueue_offer" /\ ev'.arg # NULL) =>
          LET e == ev'.arg
              i == ev'.ret
          IN  /\ i \in 0 .. Len(queue)
              /\ \A k \in 1 .. i : Comparer(e, queue[k]) >= 0
              /\ i < Len(queue) => Comparer(e, queue[i + 1]) < 0
              /\ Len(queue') = Len(queue) + 1
              /\ queue'[i + 1] = e
              /\ \A k \in 1 .. Len(queue) :
                   queue'[IF k <= i THEN k ELSE k + 1] = queue[k]
              /\ \A k \in 1 .. Len(queue) :
                   Comparer(e, queue[k]) = 0 => k <= i
              /\ schedule = "FCFS" => queue' = Append(queue, e)
     /\ (ev'.op = "priqueue_poll" /\ queue # <<>>) =>
          ev'.ret = Head(queue) /\ queue' = Tail(queue)]_vars

\* offer has just linked an element in the middle: behind a different element
\* it compares equal to and in front of one it compares less than.
C13_Witness ==
  /\ ev.op = "priqueue_offer"
  /\ ev.ret = 1
  /\ Len(queue) = 3
  /\ queue[2] = ev.arg
  /\ queue[1] # queue[2]
  /\ Comparer(queue[2], queue[1]) = 0
  /\ Comparer(queue[2], queue[3]) < 0

\* --------------------------------------------------------------------- C14
\* C14: priqueue_peek on a non-empty queue returns the head element, the
\* handle that was offered, that at(0) returns and that the next poll would
\* return, and leaves the queue as it is; on an empty queue it returns NULL.
C14_PeekReturnsHead ==
  [][(ev'.op = "priqueue_peek") =>
       /\ queue' = queue
       /\ ev'.ret = priqueue_at(queue, 0)
       /\ ev'.ret = PollValue(queue)
       /\ queue # <<>> => ev'.ret \in Elems]_vars

\* --------------------------------------------------------------------- C15
\* C15: priqueue_remove(e) unlinks every entry whose handle is e, wherever it
\* sits, returns the number of entries it unlinked, the size falling by that
\* number, and keeps the other entries in their order; a second call with
\* the same e returns 0 and changes nothing.
C15_Remove ==
  [][(ev'.op = "priqueue_remove") =>
       LET e == ev'.arg
           Other(x) == x # e
       IN  /\ queue' = SelectSeq(queue, Other)
           /\ ev'.ret = Cardinality({k \in 1 .. Len(queue) : queue[k] = e})
           /\ Len(queue') = Len(queue) - ev'.ret
           /\ priqueue_remove(queue', e) = [queue |-> queue', ret |-> 0]]_vars

\* remove has just unlinked two entries of one handle, and an entry of
\* another handle stays.
C15_Witness ==
  /\ ev.op = "priqueue_remove"
  /\ ev.ret = 2
  /\ Len(queue) = 1
  /\ queue[1] # ev.arg

\* --------------------------------------------------------------------- C16
\* The step is a new_job call that takes a running job out of its core slot.
PreemptStep == NewJobStep /\ ev'.ret # -1 /\ coreArr[ev'.ret] # NULL

\* The job that step preempts, as it was in its slot and as it is queued.
Victim == coreArr[ev'.ret]

QueuedVictim == CHOOSE j \in {queue'[k] : k \in 1 .. Len(queue')} : j.pid = Victim.pid

C17_NotPreemptedSameTick ==
  [][(/\ schedule \in {"PPRI", "PSJF"}
      /\ ev.op = "job_finished"
      /\ ev.ret # -1
      /\ NewJobStep
      /\ ev'.time = ev.time)
       => coreArr'[ev.core_id].pid = ev.ret]_vars

\* --------------------------------------------------------------------- C18
\* C18: under PSJF driven by new_job and job_finished calls, every job in the
\* wait queue has remainingTime = jobLength - (the total time it has spent in
\* a core slot), and every job in a core slot has remainingTime = jobLength -
\* (the time it has spent in a core slot up to its lastCheckedTime), its
\* lastCheckedTime being no earlier than its latest dispatch.
C18_RemainingTime ==
  /\ \A k \in 1 .. Len(queue) :
       queue[k].remainingTime = queue[k].jobLength - hist[queue[k].pid].spent
  /\ \A i \in Cores :
       coreArr[i] # NULL =>
         LET j == coreArr[i]
             h == hist[j.pid]
         IN  /\ j.lastCheckedTime >= h.since
             /\ j.remainingTime = j.jobLength - (h.spent + (j.lastCheckedTime - h.since))

\* A preempted job waits after a positive time in a core slot, while a job
\* still in its slot was updated by a later arrival's scan.
C18_Witness ==
  /\ schedule = "PSJF"
  /\ \E k \in 1 .. Len(queue) :
       /\ hist[queue[k].pid].spent > 0
       /\ queue[k].remainingTime < queue[k].jobLength
  /\ \E i \in Cores :
       /\ coreArr[i] # NULL
       /\ coreArr[i].lastCheckedTime > hist[coreArr[i].pid].since
       /\ coreArr[i].remainingTime < coreArr[i].jobLength

\* --------------------------------------------------------------------- C19
\* C19: under RR a job at zero-based position k of the wait queue moves one
\* place towards the head with every call that dispatches from the queue
\* (job_finished, or quantum_expired on a busy core), the head moving into the
\* core slot of that call, and keeps its position in every other call; so it
\* is in a core slot after exactly k+1 dispatching calls and no job that
\* arrives or is rotated out later gets ahead of it.
C19_RoundRobinBoundedWait ==
  [][(schedule = "RR") =>
       \A k \in 1 .. Len(queue) :
         IF JobFinishedStep \/ (QuantumStep /\ coreArr[ev'.core_id] # NULL)
         THEN IF k = 1
              THEN coreArr'[ev'.core_id].pid = queue[k].pid
              ELSE k - 1 <= Len(queue') /\ queue'[k - 1].pid = queue[k].pid
         ELSE k <= Len(queue') /\ queue'[k].pid = queue[k].pid]_vars

\* Under RR job_finished has just dispatched the head of the queue and the job
\* that arrived behind it, which has never run, is the new head.
C19_Witness ==
  /\ schedule = "RR"
  /\ ev.op = "job_finished"
  /\ ev.ret # -1
  /\ coreArr[ev.core_id].pid = ev.ret
  /\ Len(queue) >= 1
  /\ ran[queue[1].pid] = 0
  /\ queue[1].arrivalTime > coreArr[ev.core_id].arrivalTime

\* --------------------------------------------------------------------- C20
\* C20: no job waits while a core is idle: if a core slot is empty, the wait
\* queue is empty.
C20_WorkConserving ==
  (\E i \in Cores : coreArr[i] = NULL) => queue = <<>>

\* job_finished has just left a core idle, no job waiting, while the other
\* core still runs a job.
C20_Witness ==
  /\ ev.op = "job_finished"
  /\ ev.ret = -1
  /\ numCores = 2
  /\ coreArr[ev.core_id] = NULL
  /\ coreArr[1 - ev.core_id] # NULL
  /\ numJobs >= 2

====
